---- MODULE Spec2Model ----
(***************************************************************************)
(* Model of cargo-nnd (src/src/main.rs): build_target spawns               *)
(* `cargo build --message-format=json`, reads its stdout line by line,     *)
(* decodes every line into a CargoMessage and resolves the one executable  *)
(* to hand to the debugger.                                                *)
(***************************************************************************)
EXTENDS Integers, Sequences, FiniteSets, TLC

\* ---------------------------------------------------------------- bounds
\* longest prefix of cargo's stdout (in lines) that is explored
MaxLen == 3
\* largest numeric debuginfo level cargo is allowed to emit in the model
MaxN == 3
\* largest number of -F options on the command line
MaxFeatures == 2

VARIABLES
    pc,        \* position of the tool: "start", "reading", "returned",
               \* "exited", "panicked", "rerun", "debugger"
    lines,     \* the lines the loop of build_target has taken from stdout
    eof,       \* the lines() iterator returned None (stdout exhausted)
    target,    \* build_target's accumulator `target: Option<PathBuf>`
    child,     \* the structured-output subprocess: "none", "running", "killed"
               \* (SIGKILL sent by kill(), not waited for), "dead" (terminated,
               \* never reaped: the code has no wait())
    kills,     \* number of cmd.kill() calls issued
    diag,      \* diagnostics written to stderr, in order
    verdict,   \* last call of Profile::has_enough_debug_info and its result
    sysErr,    \* the system call that failed, "none" if none did
    resolved,  \* the path build_target returned as Ok(target), None before
    args,      \* the parsed command line, `args: Args`
    cargoCmds, \* the cargo command lines handed to spawn() and exec(), in order
    shown      \* the `{line}` printed by the parse-failure message, <<>> if none

vars == <<pc, lines, eof, target, child, kills, diag, verdict, sysErr, resolved,
          args, cargoCmds, shown>>

\* ------------------------------------------------------------ data model
\* Option<PathBuf>::None
None == ""
Paths == {"a.out", "b.out"}

\* enum DebugInfo { N(usize), B(bool), S(String) }
N(n) == [kind |-> "N", n |-> n, b |-> FALSE, s |-> ""]
B(b) == [kind |-> "B", n |-> 0, b |-> b, s |-> ""]
S(s) == [kind |-> "S", n |-> 0, b |-> FALSE, s |-> s]
\* a `profile.debuginfo` that is missing or is no usize, bool or string
NoDebugInfo == [kind |-> "absent", n |-> 0, b |-> FALSE, s |-> ""]

DebugStrings ==
    {"none", "line-directives-only", "line-tables-only", "limited", "full", "bogus"}
DebugInfo ==
    {N(n) : n \in 0..MaxN} \cup {B(b) : b \in BOOLEAN} \cup {S(s) : s \in DebugStrings}

\* One line of cargo's stdout, as the JSON document it holds:
\*   json       - the line is a well-formed JSON object
\*   reason     - value of the "reason" member, "" if there is none
\*   debuginfo  - value of profile.debuginfo
\*   executable - value of "executable", None if null or missing
\*   success    - value of "success": "true", "false", "" if missing or no bool
Line(j, r, d, e, s) ==
    [json |-> j, reason |-> r, debuginfo |-> d, executable |-> e, success |-> s]

ArtifactLine(d, e) == Line(TRUE, "compiler-artifact", d, e, "")
FinishedLine(s) == Line(TRUE, "build-finished", NoDebugInfo, None, s)
OtherLine == Line(TRUE, "build-script-executed", NoDebugInfo, None, "")
UntaggedLine == Line(TRUE, "", NoDebugInfo, None, "")
GarbageLine == Line(FALSE, "", NoDebugInfo, None, "")

Lines ==
    {ArtifactLine(d, e) : d \in DebugInfo \cup {NoDebugInfo}, e \in Paths \cup {None}}
    \cup {FinishedLine(s) : s \in {"true", "false", ""}}
    \cup {OtherLine, UntaggedLine, GarbageLine}

\* enum CargoMessage, and the Err of serde_json::from_str
CompilerArtifact(profile, executable) ==
    [tag |-> "CompilerArtifact", profile |-> profile, executable |-> executable,
     success |-> FALSE]
BuildFinished(success) ==
    [tag |-> "BuildFinished", profile |-> NoDebugInfo, executable |-> None,
     success |-> success]
Unknown ==
    [tag |-> "Unknown", profile |-> NoDebugInfo, executable |-> None, success |-> FALSE]
ParseErr ==
    [tag |-> "Err", profile |-> NoDebugInfo, executable |-> None, success |-> FALSE]

\* variant: a known tag whose fields do not fit falls to the catch-all
from_str_tolerant(line) ==
    IF ~line.json THEN ParseErr
    ELSE IF line.reason = "" THEN ParseErr
    ELSE IF line.reason = "compiler-artifact" /\ line.debuginfo.kind # "absent"
    THEN CompilerArtifact(line.debuginfo, line.executable)
    ELSE IF line.reason = "build-finished" /\ line.success = "true"
    THEN BuildFinished(TRUE)
    ELSE IF line.reason = "build-finished" /\ line.success = "false"
    THEN BuildFinished(FALSE)
    ELSE Unknown

\* serde_json::from_str::<CargoMessage>(&line): internally tagged by "reason",
\* #[serde(other)] catches every other tag, a known tag needs its fields
from_str(line) ==
    IF ~line.json THEN ParseErr
    ELSE IF line.reason = "" THEN ParseErr
    ELSE IF line.reason = "compiler-artifact" THEN
        IF line.debuginfo.kind = "absent" THEN ParseErr
        ELSE CompilerArtifact(line.debuginfo, line.executable)
    ELSE IF line.reason = "build-finished" THEN
        IF line.success = "true" THEN BuildFinished(TRUE)
        ELSE IF line.success = "false" THEN BuildFinished(FALSE)
        ELSE ParseErr
    ELSE Unknown

\* Profile::has_enough_debug_info: the bool it returns, or a panic
Returns(v) == [panic |-> FALSE, value |-> v]
Panics == [panic |-> TRUE, value |-> FALSE]

\* variant: "line-tables-only" is taken to be enough for a debugger
has_enough_debug_info_line_tables(d) ==
    CASE d.kind = "N" ->
            IF d.n = 0 THEN Returns(FALSE)
            ELSE IF d.n \in {1, 2} THEN Returns(TRUE)
            ELSE Panics
      [] d.kind = "B" ->
            IF d.b = FALSE THEN Returns(FALSE) ELSE Returns(TRUE)
      [] d.kind = "S" ->
            IF d.s \in {"none", "line-directives-only"}
            THEN Returns(FALSE)
            ELSE IF d.s \in {"line-tables-only", "limited", "full"} THEN Returns(TRUE)
            ELSE Panics

\* variant: the match has catch-all arms that return instead of panicking
has_enough_debug_info_lenient(d) ==
    CASE d.kind = "N" ->
            IF d.n = 0 THEN Returns(FALSE) ELSE Returns(TRUE)
      [] d.kind = "B" ->
            IF d.b = FALSE THEN Returns(FALSE) ELSE Returns(TRUE)
      [] d.kind = "S" ->
            IF d.s \in {"limited", "full"} THEN Returns(TRUE) ELSE Returns(FALSE)

has_enough_debug_info(d) ==
    CASE d.kind = "N" ->
            IF d.n = 0 THEN Returns(FALSE)
            ELSE IF d.n \in {1, 2} THEN Returns(TRUE)
            ELSE Panics
      [] d.kind = "B" ->
            IF d.b = FALSE THEN Returns(FALSE) ELSE Returns(TRUE)
      [] d.kind = "S" ->
            IF d.s \in {"none", "line-directives-only", "line-tables-only"}
            THEN Returns(FALSE)
            ELSE IF d.s \in {"limited", "full"} THEN Returns(TRUE)
            ELSE Panics

\* struct Args, the fields that cargo() reads; an Option<String> is None or
\* its value, `features` is the Vec of the -F options in command-line order
ArgNames == {"x"}
FeatureNames == {"f", "g"}
FeatureLists ==
    UNION {[1..n -> FeatureNames] : n \in 0..MaxFeatures}
Args ==
    [package : ArgNames \cup {None}, bin : ArgNames \cup {None},
     example : ArgNames \cup {None}, tests : BOOLEAN,
     test : ArgNames \cup {None}, bench : ArgNames \cup {None},
     features : FeatureLists, all_features : BOOLEAN,
     no_default_features : BOOLEAN]
\* cargo-nnd run without any option
NoArgs ==
    [package |-> None, bin |-> None, example |-> None, tests |-> FALSE,
     test |-> None, bench |-> None, features |-> <<>>, all_features |-> FALSE,
     no_default_features |-> FALSE]

\* one argument of a Command: the pieces that format! joins
Arg(flag) == <<flag>>
ArgEq(flag, value) == <<flag, value>>
Opt(flag, value) == IF value = None THEN <<>> ELSE <<ArgEq(flag, value)>>
Switch(flag, on) == IF on THEN <<Arg(flag)>> ELSE <<>>
RECURSIVE FeatureArgs(_)
FeatureArgs(fs) ==
    IF fs = <<>> THEN <<>>
    ELSE <<Arg("-F"), Arg(fs[1])>> \o FeatureArgs(Tail(fs))

\* variant: the human-readable command line is built without the -F loop
cargo_drops_features(a, json) ==
    <<Arg("cargo"), Arg("build")>>
    \o Switch("--message-format=json", json)
    \o Opt("--package=", a.package)
    \o Opt("--bin=", a.bin)
    \o Opt("--example=", a.example)
    \o Switch("--tests", a.tests)
    \o Opt("--test=", a.test)
    \o Opt("--bench=", a.bench)
    \o (IF json THEN FeatureArgs(a.features) ELSE <<>>)
    \o Switch("--all-features", a.all_features)
    \o Switch("--no-default-features", a.no_default_features)

\* fn cargo(args, json) -> Command: program and arguments, in order
cargo(a, json) ==
    <<Arg("cargo"), Arg("build")>>
    \o Switch("--message-format=json", json)
    \o Opt("--package=", a.package)
    \o Opt("--bin=", a.bin)
    \o Opt("--example=", a.example)
    \o Switch("--tests", a.tests)
    \o Opt("--test=", a.test)
    \o Opt("--bench=", a.bench)
    \o FeatureArgs(a.features)
    \o Switch("--all-features", a.all_features)
    \o Switch("--no-default-features", a.no_default_features)

NoVerdict == [called |-> FALSE, arg |-> NoDebugInfo, panic |-> FALSE, value |-> FALSE]
Verdict(d, r) == [called |-> TRUE, arg |-> d, panic |-> r.panic, value |-> r.value]

\* ------------------------------------------------------------------ Init
Init ==
    /\ pc = "start"
    /\ lines = <<>>
    /\ eof = FALSE
    /\ target = None
    /\ child = "none"
    /\ kills = 0
    /\ diag = <<>>
    /\ verdict = NoVerdict
    /\ sysErr = "none"
    /\ resolved = None
    /\ args = NoArgs
    /\ cargoCmds = <<>>
    /\ shown = <<>>

\* the same start for every command line of Args
InitArgs ==
    /\ pc = "start"
    /\ lines = <<>>
    /\ eof = FALSE
    /\ target = None
    /\ child = "none"
    /\ kills = 0
    /\ diag = <<>>
    /\ verdict = NoVerdict
    /\ sysErr = "none"
    /\ resolved = None
    /\ args \in Args
    /\ cargoCmds = <<>>
    /\ shown = <<>>

\* --------------------------------------------------------------- actions
\* variant: main prints the error and returns, the exit status is 0
Propagate_exit0(call, printed) ==
    /\ diag' = diag \o printed \o <<"IoError">>
    /\ sysErr' = call
    /\ pc' = "exited0"

\* main's `if let Err(err) = try_main() { eprintln!("{err}"); exit(1) }` for
\* an io::Error that `?` propagates out of the system call `call`
Propagate(call, printed) ==
    /\ diag' = diag \o printed \o <<"IoError">>
    /\ sysErr' = call
    /\ pc' = "exited"

\* variant: the macro lacks the exit(1), control falls through to the loop
bail_no_exit(msg, killOk) ==
    /\ kills' = kills + 1
    /\ IF killOk
       THEN /\ child' = "killed"
            /\ diag' = Append(diag, msg)
            /\ sysErr' = sysErr
            /\ pc' = pc
       ELSE /\ child' = child
            /\ Propagate("kill", <<msg>>)

\* macro bail!: eprintln!, cmd.kill()?, exit(1)
bail(msg, killOk) ==
    /\ kills' = kills + 1
    /\ IF killOk
       THEN /\ child' = "killed"
            /\ diag' = Append(diag, msg)
            /\ sysErr' = sysErr
            /\ pc' = "exited"
       ELSE /\ child' = child
            /\ Propagate("kill", <<msg>>)

\* build_target, up to the loop: spawn cargo with a piped stdout. The child
\* of a Stdio::piped() spawn always has its stdout, so `cmd.stdout.take()`
\* is Some and the bail! of its None arm is never run. The echo of the
\* command line is no diagnostic and is left out of `diag`.
Spawn(spawnOk) ==
    /\ pc = "start"
    /\ cargoCmds' = Append(cargoCmds, cargo(args, TRUE))
    /\ IF spawnOk
       THEN /\ child' = "running"
            /\ pc' = "reading"
            /\ UNCHANGED <<diag, sysErr>>
       ELSE /\ child' = child
            /\ Propagate("spawn", <<>>)
    /\ UNCHANGED <<lines, eof, target, kills, verdict, resolved, args, shown>>

\* variant: the arm validates the executable but never stores it
OnCompilerArtifact_forgets(profile, executable, killOk) ==
    IF executable # None
    THEN LET r == has_enough_debug_info(profile) IN
         /\ verdict' = Verdict(profile, r)
         /\ IF r.panic
            THEN /\ pc' = "panicked"
                 /\ diag' = Append(diag, "Panic")
                 /\ UNCHANGED <<target, child, kills, sysErr>>
            ELSE IF ~r.value
            THEN /\ bail("InsufficientDebugInfo", killOk)
                 /\ UNCHANGED target
            ELSE IF target # None
            THEN /\ bail("MultipleExecutables", killOk)
                 /\ UNCHANGED target
            ELSE UNCHANGED <<pc, target, child, kills, diag, sysErr>>
    ELSE UNCHANGED <<pc, target, child, kills, diag, verdict, sysErr>>

\* variant: the arm lacks the `target.is_some()` test, the last executable wins
OnCompilerArtifact_overwrites(profile, executable, killOk) ==
    IF executable # None
    THEN LET r == has_enough_debug_info(profile) IN
         /\ verdict' = Verdict(profile, r)
         /\ IF r.panic
            THEN /\ pc' = "panicked"
                 /\ diag' = Append(diag, "Panic")
                 /\ UNCHANGED <<target, child, kills, sysErr>>
            ELSE IF ~r.value
            THEN /\ bail("InsufficientDebugInfo", killOk)
                 /\ UNCHANGED target
            ELSE /\ target' = executable
                 /\ UNCHANGED <<pc, child, kills, diag, sysErr>>
    ELSE UNCHANGED <<pc, target, child, kills, diag, verdict, sysErr>>

\* variant: the arm lacks the debug-info test
OnCompilerArtifact_unchecked(profile, executable, killOk) ==
    IF executable # None
    THEN IF target # None
         THEN /\ bail("MultipleExecutables", killOk)
              /\ UNCHANGED <<target, verdict>>
         ELSE /\ target' = executable
              /\ UNCHANGED <<pc, child, kills, diag, verdict, sysErr>>
    ELSE UNCHANGED <<pc, target, child, kills, diag, verdict, sysErr>>

\* variant: the `target.is_some()` test comes before the debug-info test
OnCompilerArtifact_recorded_first(profile, executable, killOk) ==
    IF executable # None
    THEN IF target # None
         THEN /\ bail("MultipleExecutables", killOk)
              /\ UNCHANGED <<target, verdict>>
         ELSE LET r == has_enough_debug_info(profile) IN
              /\ verdict' = Verdict(profile, r)
              /\ IF r.panic
                 THEN /\ pc' = "panicked"
                      /\ diag' = Append(diag, "Panic")
                      /\ UNCHANGED <<target, child, kills, sysErr>>
                 ELSE IF ~r.value
                 THEN /\ bail("InsufficientDebugInfo", killOk)
                      /\ UNCHANGED target
                 ELSE /\ target' = executable
                      /\ UNCHANGED <<pc, child, kills, diag, sysErr>>
    ELSE UNCHANGED <<pc, target, child, kills, diag, verdict, sysErr>>

\* loop body, arm Ok(CargoMessage::CompilerArtifact { profile, executable })
OnCompilerArtifact(profile, executable, killOk) ==
    IF executable # None
    THEN LET r == has_enough_debug_info(profile) IN
         /\ verdict' = Verdict(profile, r)
         /\ IF r.panic
            THEN /\ pc' = "panicked"
                 /\ diag' = Append(diag, "Panic")
                 /\ UNCHANGED <<target, child, kills, sysErr>>
            ELSE IF ~r.value
            THEN /\ bail("InsufficientDebugInfo", killOk)
                 /\ UNCHANGED target
            ELSE IF target # None
            THEN /\ bail("MultipleExecutables", killOk)
                 /\ UNCHANGED target
            ELSE /\ target' = executable
                 /\ UNCHANGED <<pc, child, kills, diag, sysErr>>
    ELSE UNCHANGED <<pc, target, child, kills, diag, verdict, sysErr>>

\* variant: the arm does not look at `success`
OnBuildFinished_ignores(success, killOk, execOk) ==
    UNCHANGED <<pc, target, child, kills, diag, verdict, sysErr, cargoCmds>>

\* variant: a successful finish leaves the loop at once
OnBuildFinished_breaks(success, killOk, execOk) ==
    IF ~success
    THEN /\ kills' = kills + 1
         /\ IF ~killOk
            THEN /\ child' = child
                 /\ Propagate("kill", <<>>)
                 /\ UNCHANGED cargoCmds
            ELSE /\ child' = "killed"
                 /\ cargoCmds' = Append(cargoCmds, cargo(args, FALSE))
                 /\ IF execOk
                    THEN /\ pc' = "rerun"
                         /\ UNCHANGED <<diag, sysErr>>
                    ELSE Propagate("exec", <<>>)
         /\ UNCHANGED <<target, verdict>>
    ELSE /\ IF target = None
            THEN bail("NoArtifact", killOk)
            ELSE /\ pc' = "returned"
                 /\ UNCHANGED <<child, kills, diag, sysErr>>
         /\ UNCHANGED <<target, verdict, cargoCmds>>

\* variant: the re-run is built by cargo(args, true)
OnBuildFinished_json_rerun(success, killOk, execOk) ==
    IF ~success
    THEN /\ kills' = kills + 1
         /\ IF ~killOk
            THEN /\ child' = child
                 /\ Propagate("kill", <<>>)
                 /\ UNCHANGED cargoCmds
            ELSE /\ child' = "killed"
                 /\ cargoCmds' = Append(cargoCmds, cargo(args, TRUE))
                 /\ IF execOk
                    THEN /\ pc' = "rerun"
                         /\ UNCHANGED <<diag, sysErr>>
                    ELSE Propagate("exec", <<>>)
         /\ UNCHANGED <<target, verdict>>
    ELSE UNCHANGED <<pc, target, child, kills, diag, verdict, sysErr, cargoCmds>>

\* loop body, arm Ok(CargoMessage::BuildFinished { success })
OnBuildFinished(success, killOk, execOk) ==
    IF ~success
    THEN /\ kills' = kills + 1
         /\ IF ~killOk
            THEN /\ child' = child
                 /\ Propagate("kill", <<>>)
                 /\ UNCHANGED cargoCmds
            ELSE /\ child' = "killed"
                 /\ cargoCmds' = Append(cargoCmds, cargo(args, FALSE))
                 /\ IF execOk
                    THEN /\ pc' = "rerun"
                         /\ UNCHANGED <<diag, sysErr>>
                    ELSE Propagate("exec", <<>>)
         /\ UNCHANGED <<target, verdict>>
    ELSE UNCHANGED <<pc, target, child, kills, diag, verdict, sysErr, cargoCmds>>

\* variant: an unknown message makes the loop start over
OnUnknown_clears ==
    /\ target' = None
    /\ UNCHANGED <<pc, child, kills, diag, verdict, sysErr>>

\* loop body, arm Ok(CargoMessage::Unknown)
OnUnknown ==
    UNCHANGED <<pc, target, child, kills, diag, verdict, sysErr>>

\* loop body, arm Err(err): the message carries the error and the line
OnParseError(line, killOk) ==
    /\ bail("ParseFailure", killOk)
    /\ shown' = <<line>>
    /\ UNCHANGED <<target, verdict>>

\* one iteration of `for line in BufReader::new(stdout).lines()` whose item
\* is Ok(line)
ReadLine(line, killOk, execOk) ==
    /\ pc = "reading"
    /\ Len(lines) < MaxLen
    /\ lines' = Append(lines, line)
    /\ UNCHANGED <<eof, resolved, args>>
    /\ LET msg == from_str(line) IN
       CASE msg.tag = "CompilerArtifact" ->
                /\ OnCompilerArtifact(msg.profile, msg.executable, killOk)
                /\ UNCHANGED <<cargoCmds, shown>>
         [] msg.tag = "BuildFinished" ->
                /\ OnBuildFinished(msg.success, killOk, execOk)
                /\ UNCHANGED shown
         [] msg.tag = "Unknown" ->
                /\ OnUnknown
                /\ UNCHANGED <<cargoCmds, shown>>
         [] msg.tag = "Err" ->
                /\ OnParseError(line, killOk)
                /\ UNCHANGED cargoCmds

\* one iteration whose item is Err(io error): `let line = line?;`
ReadFails ==
    /\ pc = "reading"
    /\ Propagate("read", <<>>)
    /\ UNCHANGED <<lines, eof, target, child, kills, verdict, resolved>>
    /\ UNCHANGED <<args, cargoCmds, shown>>

\* variant: the function fails whatever the accumulator holds
AfterLoop_always_bails(killOk) ==
    /\ bail("NoArtifact", killOk)
    /\ UNCHANGED resolved

\* variant: the accumulator is returned without the `let .. else` test
AfterLoop_unchecked(killOk) ==
    /\ pc' = "returned"
    /\ resolved' = target
    /\ UNCHANGED <<child, kills, diag, sysErr>>

\* variant: the subprocess is killed before the path is returned
AfterLoop_kills(killOk) ==
    IF target = None
    THEN /\ bail("NoArtifact", killOk)
         /\ UNCHANGED resolved
    ELSE /\ pc' = "returned"
         /\ resolved' = target
         /\ kills' = kills + 1
         /\ child' = "killed"
         /\ UNCHANGED <<diag, sysErr>>

\* the code after the loop: `let Some(target) = target else { bail!(..) }`
AfterLoop(killOk) ==
    IF target = None
    THEN /\ bail("NoArtifact", killOk)
         /\ UNCHANGED resolved
    ELSE /\ pc' = "returned"
         /\ resolved' = target
         /\ UNCHANGED <<child, kills, diag, sysErr>>

\* the iterator is exhausted: the loop ends and build_target finishes
EndOfStream(killOk) ==
    /\ pc = "reading"
    /\ eof' = TRUE
    /\ AfterLoop(killOk)
    /\ UNCHANGED <<lines, target, verdict, args, cargoCmds, shown>>

\* try_main line 19: run(&args, &target) replaces the process by nnd; the
\* canonicalize of the breakpoint file (nnd) or the exec (run) may fail, and
\* either error is printed and followed by exit(1)
Run(fault) ==
    /\ pc = "returned"
    /\ IF fault = "none"
       THEN /\ pc' = "debugger"
            /\ UNCHANGED <<diag, sysErr>>
       ELSE Propagate(fault, <<>>)
    /\ UNCHANGED <<lines, eof, target, child, kills, verdict, resolved>>
    /\ UNCHANGED <<args, cargoCmds, shown>>

\* the operating system ends the subprocess that kill() sent SIGKILL to.
\* kill() returns once the signal is queued and the code never waits for the
\* child, so this happens at any later time, also after the exec of the
\* re-run and after exit(1)
ChildDies ==
    /\ child = "killed"
    /\ child' = "dead"
    /\ UNCHANGED <<pc, lines, eof, target, kills, diag, verdict, sysErr, resolved>>
    /\ UNCHANGED <<args, cargoCmds, shown>>

Next ==
    \/ \E spawnOk \in BOOLEAN : Spawn(spawnOk)
    \/ \E line \in Lines, killOk, execOk \in BOOLEAN : ReadLine(line, killOk, execOk)
    \/ ReadFails
    \/ \E killOk \in BOOLEAN : EndOfStream(killOk)
    \/ \E fault \in {"none", "canonicalize", "exec"} : Run(fault)
    \/ ChildDies

Spec == Init /\ [][Next]_vars

\* every command line, with a stdout that holds only the lines that decide
\* which cargo commands are run
ArgsLines == {ArtifactLine(N(1), "a.out"), FinishedLine("false")}

NextArgs ==
    \/ \E spawnOk \in BOOLEAN : Spawn(spawnOk)
    \/ \E line \in ArgsLines, killOk, execOk \in BOOLEAN : ReadLine(line, killOk, execOk)
    \/ ReadFails
    \/ \E killOk \in BOOLEAN : EndOfStream(killOk)
    \/ \E fault \in {"none", "canonicalize", "exec"} : Run(fault)
    \/ ChildDies

SpecArgs == InitArgs /\ [][NextArgs]_vars

\* ----------------------------------------------------------------- types
TypeOK ==
    /\ pc \in {"start", "reading", "returned", "exited", "panicked", "rerun", "debugger"}
    /\ lines \in Seq(Lines) /\ Len(lines) <= MaxLen
    /\ eof \in BOOLEAN
    /\ target \in Paths \cup {None}
    /\ child \in {"none", "running", "killed", "dead"}
    /\ kills \in 0..1
    /\ sysErr \in {"none", "spawn", "read", "kill", "exec", "canonicalize"}
    /\ resolved \in Paths \cup {None}
    /\ args \in Args
    /\ Len(cargoCmds) <= 2
    /\ shown = <<>> \/ (Len(shown) = 1 /\ shown[1] \in Lines)

\* ---------------------------------------------------------- vocabulary
\* the settings the specification calls sufficient, and insufficient
SufficientSettings == {N(1), N(2), B(TRUE), S("limited"), S("full")}
InsufficientSettings ==
    {N(0), B(FALSE), S("none"), S("line-directives-only"), S("line-tables-only")}

\* lines that decode to ArtifactProduced with an executable path
ExeLines(settings) == {ArtifactLine(d, e) : d \in settings, e \in Paths}
\* lines that decode to ArtifactProduced without one
LibLines(settings) == {ArtifactLine(d, None) : d \in settings}

\* the attempt ended with exit(1), `kind` was reported and no path came back
Failed(kind) ==
    /\ pc = "exited"
    /\ Len(diag) >= 1
    /\ diag[1] = kind
    /\ resolved = None

\* the step consumes `line` as the next line of the stream
Consumes(line) == pc = "reading" /\ lines' = Append(lines, line)

Terminated == pc \in {"exited", "panicked", "rerun", "debugger"}

\* ------------------------------------------------------------------- C1
C1_Stream ==
    /\ Len(lines) >= 2
    /\ lines[Len(lines)] = FinishedLine("true")
    /\ \E i \in 1..(Len(lines) - 1) :
        /\ lines[i] \in ExeLines(SufficientSettings)
        /\ \A j \in 1..(Len(lines) - 1) \ {i} :
            lines[j] \in {OtherLine} \cup LibLines(SufficientSettings)

\* C1: a stream that was read to its end, holds exactly one artifact with an
\* executable (its debug info sufficient), otherwise only unrecognized events
\* and artifacts without executable, and ends with BuildFinished(true), makes
\* build_target return that artifact's executable path.
C1_ResolvesTheExecutable ==
    (eof /\ C1_Stream) =>
        \A i \in 1..Len(lines) :
            lines[i] \in ExeLines(SufficientSettings) =>
                /\ resolved = lines[i].executable
                /\ pc \in {"returned", "debugger"} \/ sysErr \in {"canonicalize", "exec"}

C1_Witness ==
    /\ eof
    /\ lines = <<ArtifactLine(N(1), "a.out"), FinishedLine("true")>>
    /\ resolved = "a.out"
    /\ pc = "returned"

\* ------------------------------------------------------------------- C2
C2_Step ==
    /\ target # None => target' = target
    /\ \A line \in ExeLines(SufficientSettings) :
        (Consumes(line) /\ target # None) =>
            /\ Failed("MultipleExecutables")'
            /\ kills' = kills + 1

\* C2: the accumulator `target` is written at most once: once set it keeps
\* its value, and an artifact with an executable and sufficient debug info
\* that arrives while it is set ends the attempt with MultipleExecutables and
\* without a resolved path.
C2_RecordedAtMostOnce == [][C2_Step]_vars

C2_Witness ==
    /\ lines = <<ArtifactLine(N(1), "a.out"), ArtifactLine(N(1), "b.out")>>
    /\ target = "a.out"
    /\ Failed("MultipleExecutables")

\* ------------------------------------------------------------------- C3
\* C3 as stated: every artifact whose debug info is insufficient, with or
\* without an executable path, fails the attempt at once with
\* InsufficientDebugInfo.
C3_AnyInsufficientArtifactFails ==
    [][\A line \in ExeLines(InsufficientSettings) \cup LibLines(InsufficientSettings) :
            Consumes(line) => Failed("InsufficientDebugInfo")']_vars

C3_Step ==
    /\ \A line \in ExeLines(InsufficientSettings) :
            Consumes(line) =>
                /\ Failed("InsufficientDebugInfo")'
                /\ kills' = kills + 1
                /\ target' = target
    /\ \A line \in LibLines(InsufficientSettings) :
            Consumes(line) =>
                UNCHANGED <<pc, target, child, kills, diag, verdict, sysErr, resolved,
                            cargoCmds, shown>>

\* C3 (amended): an artifact that carries an executable path and whose debug
\* info is insufficient fails the attempt at once with InsufficientDebugInfo;
\* an artifact without executable path is skipped whatever its debug info.
C3_InsufficientExecutableFails == [][C3_Step]_vars

C3_Witness ==
    /\ lines = <<ArtifactLine(N(0), None), ArtifactLine(B(FALSE), "a.out")>>
    /\ Failed("InsufficientDebugInfo")

\* ------------------------------------------------------------------- C4
C4_Step ==
    /\ Terminated => UNCHANGED <<pc, lines, eof, target, kills, diag, sysErr, resolved>>
    /\ Consumes(FinishedLine("false")) =>
        /\ resolved' = None
        /\ kills' = kills + 1
        /\ pc' \in {"rerun", "exited"}
        /\ sysErr' = "none" => pc' = "rerun"
        /\ pc' = "exited" => sysErr' \in {"kill", "exec"} /\ diag' = <<"IoError">>

\* C4: consuming BuildFinished(false) is terminal: no path is returned and
\* the debugger is not launched, also when an executable was recorded before;
\* the subprocess is killed and the process is replaced by the human-readable
\* build. Only a kill() or exec() that itself returns an io::Error ends the
\* tool with that error and exit status 1 instead.
C4_FailedBuildIsRerun == [][C4_Step]_vars

C4_Witness ==
    /\ lines = <<ArtifactLine(N(1), "a.out"), FinishedLine("false")>>
    /\ target = "a.out"
    /\ resolved = None
    /\ pc = "rerun"

\* ------------------------------------------------------------------- C5
NoFinishSeen ==
    \A i \in 1..Len(lines) : lines[i] \notin {FinishedLine("true"), FinishedLine("false")}

FinishedSeen == \E i \in 1..Len(lines) : lines[i] = FinishedLine("true")

\* C6 as stated: once BuildFinished(true) is consumed no further line is
\* read and the outcome is fixed.
C6_SuccessEndsConsumption ==
    [][FinishedSeen => (lines' = lines /\ target' = target)]_vars

\* C6 (amended): BuildFinished(true) changes nothing: target, subprocess and
\* diagnostics stay as they are and the loop keeps reading until the stream
\* ends, so later events are consumed and decide the outcome like any other.
C6_SuccessIsIgnored ==
    [][Consumes(FinishedLine("true")) =>
            UNCHANGED <<pc, eof, target, child, kills, diag, verdict, sysErr, resolved,
                        cargoCmds, shown>>]_vars

C6_Witness ==
    /\ eof
    /\ lines = <<FinishedLine("true"), ArtifactLine(N(1), "a.out")>>
    /\ resolved = "a.out"

\* ------------------------------------------------------------------- C7
\* C7: when the loop has ended after a BuildFinished(true) and no line of the
\* stream carried an executable path, the attempt fails with NoArtifact, the
\* tool exits with status 1 and no path is resolved.
C7_NoExecutableIsNoArtifact ==
    (eof /\ FinishedSeen /\ \A i \in 1..Len(lines) : lines[i] \notin ExeLines(DebugInfo)) =>
        Failed("NoArtifact") /\ kills = 1

C7_Witness ==
    /\ eof
    /\ lines = <<ArtifactLine(N(2), None), FinishedLine("true")>>
    /\ Failed("NoArtifact")

\* ------------------------------------------------------------------- C8
\* C8: when the first line is ArtifactProduced(debug=0, exe="a.out") the
\* attempt fails with InsufficientDebugInfo and no further line is consumed.
C8_InsufficientIsTerminal ==
    (Len(lines) >= 1 /\ lines[1] = ArtifactLine(N(0), "a.out")) =>
        /\ Len(lines) = 1
        /\ ~eof
        /\ Failed("InsufficientDebugInfo")

C8_Witness ==
    /\ lines = <<ArtifactLine(N(0), "a.out")>>
    /\ Failed("InsufficientDebugInfo")
    /\ child = "killed"

\* ------------------------------------------------------------------- C9
\* C9: has_enough_debug_info returns false for 0, false, "none",
\* "line-directives-only" and "line-tables-only", and true for 1, 2, true,
\* "limited" and "full".
C9_ClassifierTable ==
    verdict.called =>
        /\ verdict.arg \in InsufficientSettings => (~verdict.panic /\ ~verdict.value)
        /\ verdict.arg \in SufficientSettings => (~verdict.panic /\ verdict.value)

C9_Witness ==
    /\ verdict.called
    /\ verdict.arg = S("line-tables-only")
    /\ ~verdict.panic
    /\ ~verdict.value

\* ------------------------------------------------------------------ C10
\* C10: for a number other than 0, 1, 2 and a string other than the five
\* names has_enough_debug_info returns no verdict: it panics, the process
\* ends there and the debugger is not reached.
C10_UnrecognizedSettingPanics ==
    (verdict.called /\ verdict.arg \notin SufficientSettings \cup InsufficientSettings) =>
        /\ verdict.panic
        /\ pc = "panicked"
        /\ resolved = None
        /\ diag = <<"Panic">>

C10_Witness ==
    /\ verdict.called
    /\ verdict.arg = S("bogus")
    /\ pc = "panicked"

\* ------------------------------------------------------------------ C11
\* The loop of build_target as a function of the lines it is given, when
\* every system call succeeds: the locals after one more line ...
LoopStart == [pc |-> "reading", target |-> None, err |-> "none"]

LoopStep(st, line) ==
    LET msg == from_str(line) IN
    CASE msg.tag = "CompilerArtifact" ->
            IF msg.executable = None THEN st
            ELSE LET r == has_enough_debug_info(msg.profile) IN
                 IF r.panic THEN [st EXCEPT !.pc = "panicked", !.err = "Panic"]
                 ELSE IF ~r.value
                 THEN [st EXCEPT !.pc = "exited", !.err = "InsufficientDebugInfo"]
                 ELSE IF st.target # None
                 THEN [st EXCEPT !.pc = "exited", !.err = "MultipleExecutables"]
                 ELSE [st EXCEPT !.target = msg.executable]
      [] msg.tag = "BuildFinished" ->
            IF ~msg.success THEN [st EXCEPT !.pc = "rerun"] ELSE st
      [] msg.tag = "Unknown" -> st
      [] msg.tag = "Err" -> [st EXCEPT !.pc = "exited", !.err = "ParseFailure"]

\* ... after all of them, the loop stopping at the first line that ends it ...
RECURSIVE LoopOver(_)
LoopOver(ls) ==
    IF ls = <<>> THEN LoopStart
    ELSE LET st == LoopOver(SubSeq(ls, 1, Len(ls) - 1)) IN
         IF st.pc # "reading" THEN st ELSE LoopStep(st, ls[Len(ls)])

\* ... and what build_target makes of them once the stream has ended
build_target(ls, ended) ==
    LET st == LoopOver(ls) IN
    IF ~ended \/ st.pc # "reading" THEN st
    ELSE IF st.target = None
    THEN [st EXCEPT !.pc = "exited", !.err = "NoArtifact"]
    ELSE [st EXCEPT !.pc = "returned"]

\* a line with a discriminator that is none of the two known ones
IsUnrecognized(line) ==
    line.json /\ line.reason \notin {"", "compiler-artifact", "build-finished"}
WithoutUnrecognized(ls) == SelectSeq(ls, LAMBDA l : ~IsUnrecognized(l))

\* what the run has come to: where build_target stands, its accumulator and
\* the first diagnostic
Outcome ==
    [pc |-> IF resolved # None THEN "returned" ELSE pc,
     target |-> target,
     err |-> IF diag = <<>> \/ resolved # None THEN "none" ELSE diag[1]]

\* an io::Error inside build_target ended the run
BuildIoError == resolved = None /\ diag # <<>> /\ diag[Len(diag)] = "IoError"

\* C11: a line with an unknown discriminator decodes to Unknown, no error,
\* and changes nothing: the run of any stream comes to what build_target
\* makes of the same stream with the unrecognized lines taken out.
C11_UnrecognizedIsTransparent ==
    /\ \A i \in 1..Len(lines) : IsUnrecognized(lines[i]) => from_str(lines[i]) = Unknown
    /\ (pc # "start" /\ ~BuildIoError) =>
            Outcome = build_target(WithoutUnrecognized(lines), eof)

C11_Witness ==
    /\ eof
    /\ lines = <<OtherLine, ArtifactLine(N(1), "a.out"), OtherLine>>
    /\ resolved = "a.out"
    /\ WithoutUnrecognized(lines) = <<ArtifactLine(N(1), "a.out")>>

\* ------------------------------------------------------------------ C12
\* lines with a known discriminator whose required fields are missing or
\* have the wrong type
MisshapenLines ==
    {ArtifactLine(NoDebugInfo, e) : e \in Paths \cup {None}} \cup {FinishedLine("")}

C12_Step ==
    \A line \in MisshapenLines :
        Consumes(line) =>
            /\ from_str(line) = ParseErr
            /\ Failed("ParseFailure")'
            /\ shown' = <<line>>
            /\ kills' = kills + 1
            /\ child' = "killed" \/ sysErr' = "kill"
            /\ target' = target

\* C12: a line with a known discriminator and missing or mistyped fields is
\* a parse failure, neither Unknown nor skipped: the message with the line
\* itself is printed, kill() is called on the subprocess and the tool exits
\* with status 1 without a path, whatever was recorded before.
C12_MisshapenLineIsFatal == [][C12_Step]_vars

C12_Witness ==
    /\ lines = <<ArtifactLine(N(1), "a.out"), FinishedLine("")>>
    /\ target = "a.out"
    /\ Failed("ParseFailure")
    /\ shown = <<FinishedLine("")>>
    /\ child = "killed"

\* ------------------------------------------------------------------ C13
\* the structured-output subprocess has not terminated yet
FirstBuildAlive == child \in {"running", "killed"}

\* C13: while the human-readable build runs the structured-output subprocess
\* is gone: it was killed and its end was waited for before the exec.
C13_OneBuildAtATime == pc = "rerun" => ~FirstBuildAlive

\* ------------------------------------------------------------------ C14
\* the tool has ended on an error of build_target with a subprocess spawned
HardError == pc \in {"exited", "panicked"} /\ child # "none" /\ resolved = None

\* C14: on every hard-error path (parse failure, InsufficientDebugInfo,
\* MultipleExecutables, NoArtifact, panic of the classifier, I/O error while
\* reading a line) kill() is called on the subprocess before the tool ends.
C14_KillOnEveryHardError == HardError => kills >= 1

\* ------------------------------------------------------------------ C15
\* the command line asks for the structured output
IsStructured(cmd) == \E i \in 1..Len(cmd) : cmd[i] = <<"--message-format=json">>

C15_Invocations ==
    /\ Len(cargoCmds) <= 2
    /\ pc # "start" => (Len(cargoCmds) >= 1 /\ IsStructured(cargoCmds[1]))
    /\ Len(cargoCmds) = 2 =>
        /\ ~IsStructured(cargoCmds[2])
        /\ lines # <<>> /\ lines[Len(lines)] = FinishedLine("false")
    /\ \A kind \in {"MultipleExecutables", "InsufficientDebugInfo", "NoArtifact",
                    "ParseFailure"} :
            Failed(kind) => Len(cargoCmds) = 1

\* C15: nothing is retried: the structured-output build is invoked once, the
\* human-readable build at most once and only on BuildFinished(false), and
\* after MultipleExecutables, InsufficientDebugInfo, NoArtifact or a parse
\* failure, as after any end of the tool, no cargo command is run any more.
C15_NothingIsRetried ==
    [][C15_Invocations' /\ (Terminated => cargoCmds' = cargoCmds)]_vars

C15_Witness ==
    /\ lines = <<ArtifactLine(N(1), "a.out"), FinishedLine("false")>>
    /\ pc = "rerun"
    /\ Len(cargoCmds) = 2
    /\ IsStructured(cargoCmds[1])
    /\ ~IsStructured(cargoCmds[2])

\* ------------------------------------------------------------------ C16
\* a step of the tool itself
ToolNext ==
    \/ \E spawnOk \in BOOLEAN : Spawn(spawnOk)
    \/ \E line \in Lines, killOk, execOk \in BOOLEAN : ReadLine(line, killOk, execOk)
    \/ ReadFails
    \/ \E killOk \in BOOLEAN : EndOfStream(killOk)
    \/ \E fault \in {"none", "canonicalize", "exec"} : Run(fault)

toolVars ==
    <<pc, lines, eof, target, kills, diag, verdict, sysErr, resolved, args,
      cargoCmds, shown>>

DebuggerLaunched == pc = "debugger" /\ resolved # None /\ diag = <<>>
HandedToRerun == pc = "rerun" /\ resolved = None /\ diag = <<>>
ExitedNonzero == pc \in {"exited", "panicked"} /\ diag # <<>>

\* the tool stops only in one of the three outcomes, and a printed failure
\* goes with a nonzero exit
C16_Outcomes ==
    /\ ~ENABLED ToolNext => Terminated
    /\ Terminated =>
        Cardinality({o \in {"debugger", "rerun", "exit"} :
            \/ o = "debugger" /\ DebuggerLaunched
            \/ o = "rerun" /\ HandedToRerun
            \/ o = "exit" /\ ExitedNonzero}) = 1
    /\ diag # <<>> => ExitedNonzero

\* grows with every step of the tool and is bounded by the length of the
\* stream: the tool cannot run forever
Progress ==
    Len(lines) +
    (MaxLen + 1) * (CASE pc = "start" -> 0 [] pc = "reading" -> 1
                      [] pc = "returned" -> 2 [] OTHER -> 3)

\* C16: on every finite stream the tool comes to exactly one end: the
\* debugger is launched with the resolved path, or the human-readable build
\* takes over, or a message is printed and the exit status is not 0; every
\* failure (parse failure, MultipleExecutables, InsufficientDebugInfo,
\* NoArtifact, I/O error) is of the third kind.
C16_OneOutcome ==
    /\ []C16_Outcomes
    /\ [][Progress' > Progress /\ ~Terminated]_toolVars

C16_Witness ==
    /\ lines = <<ArtifactLine(N(1), "a.out"), FinishedLine("true")>>
    /\ DebuggerLaunched
    /\ ~ENABLED ToolNext

\* ------------------------------------------------------------------ C17
StructuredSwitch == <<"--message-format=json">>

\* the command line without its first structured-output switch
WithoutSwitch(cmd) ==
    LET at == {i \in 1..Len(cmd) : cmd[i] = StructuredSwitch} IN
    IF at = {} THEN cmd
    ELSE LET i == CHOOSE i \in at : \A j \in at : i <= j IN
         SubSeq(cmd, 1, i - 1) \o SubSeq(cmd, i + 1, Len(cmd))

\* C17: for every command line of the tool, the human-readable re-run is
\* invoked with the arguments of the structured-output run, in the same
\* order, less the switch --message-format=json.
C17_RerunHasSameArguments ==
    Len(cargoCmds) = 2 =>
        /\ IsStructured(cargoCmds[1])
        /\ ~IsStructured(cargoCmds[2])
        /\ cargoCmds[2] = WithoutSwitch(cargoCmds[1])

C17_Witness ==
    /\ pc = "rerun"
    /\ args.package = "x" /\ args.tests /\ args.features = <<"g", "f">>
    /\ args.no_default_features
    /\ Len(cargoCmds) = 2
    /\ Len(cargoCmds[2]) = Len(cargoCmds[1]) - 1
    /\ Len(cargoCmds[2]) >= 9

\* ------------------------------------------------------------------ C18
C18_Step ==
    /\ \A line \in ExeLines(InsufficientSettings) :
            (Consumes(line) /\ target # None) =>
                Failed("InsufficientDebugInfo")' /\ diag'[1] # "MultipleExecutables"
    /\ (diag = <<>> /\ diag' # <<>> /\ diag'[1] = "MultipleExecutables") =>
            /\ target # None
            /\ \E line \in ExeLines(SufficientSettings) : Consumes(line)

\* C18: the debug info of an artifact with an executable is tested before
\* the accumulator: a second executable with insufficient debug info is
\* reported as InsufficientDebugInfo, and MultipleExecutables is reported
\* only for a second executable whose debug info is sufficient.
C18_DebugInfoTestedFirst == [][C18_Step]_vars

C18_Witness ==
    /\ lines = <<ArtifactLine(N(1), "a.out"), ArtifactLine(N(0), "b.out")>>
    /\ target = "a.out"
    /\ Failed("InsufficientDebugInfo")

\* ------------------------------------------------------------------ C19
ExecutablesSeen == {i \in 1..Len(lines) : lines[i] \in ExeLines(DebugInfo)}

\* C19: the debugger takes over only when the stream was read to its end,
\* exactly one artifact with an executable was seen in it and no
\* BuildFinished(false); on that path the subprocess is neither killed nor
\* waited for.
C19_HandoffAfterEndOfStream ==
    pc = "debugger" =>
        /\ eof
        /\ Cardinality(ExecutablesSeen) = 1
        /\ \A i \in ExecutablesSeen : resolved = lines[i].executable
        /\ \A i \in 1..Len(lines) : lines[i] # FinishedLine("false")
        /\ kills = 0
        /\ child = "running"

C19_Witness ==
    /\ pc = "debugger"
    /\ lines = <<OtherLine, ArtifactLine(S("full"), "b.out"), FinishedLine("true")>>
    /\ resolved = "b.out"
    /\ child = "running"
====
